---- MODULE Spec2Model ----
(***************************************************************************)
(* CDC replication of the source table `orders`: the synthetic load        *)
(* generator (scripts/mock_stream.py) mutates the source, the change       *)
(* events reach the topic dbserver1.public.orders, and two sinks read the  *)
(* topic: the Python consumer (scripts/kafka-consumer.py) writing table    *)
(* orders, and the Flink SQL job (flink-job/flink-init.py) writing table   *)
(* orders_flink.                                                           *)
(***************************************************************************)
EXTENDS Integers, Sequences, FiniteSets, TLC

\* ------------------------------------------------------------------ bounds
\* Longest topic log explored.
MaxLog == 3
\* Highest order_id the source's serial column hands out.
MaxKeys == 2
\* How many times the consumer process is started again.
MaxRestarts == 1
\* Longest sequence of messages handed to process_message in ApplySpec.
MaxHist == 2

\* -------------------------------------------------------- program constants
\* max_retries of get_db_connection and of main's KafkaConsumer loop.
max_retries == 10

\* ------------------------------------------------------------------- data
Keys == 1..MaxKeys
\* The (user_id, name) pairs generate_synthetic_order draws from, cut to two.
Fills == {[user_id |-> 5, name |-> "A"], [user_id |-> 9, name |-> "B"]}

\* JSON null / Python None in a projection.
Null == [null |-> TRUE]
\* The JSON object {} (falsy in Python).
EmptyObj == [f \in {} |-> 0]

\* A full row image {order_id, user_id, name}.
RowOf(k, f) == [order_id |-> k, user_id |-> f.user_id, name |-> f.name]
FullRows == {RowOf(k, f) : k \in Keys, f \in Fills}
\* A row image holding the key only.
KeyOnly(k) == [order_id |-> k]
\* A row image without the key.
NoKey == [user_id |-> 5, name |-> "A"]

\* Python truthiness of a projection: None and {} are falsy.
Truthy(x) == x /= Null /\ DOMAIN x /= {}

\* A topic message as its raw value: kind "empty" is a message with no value
\* (tombstone), "malformed" is bytes json.loads rejects, "nonobject" is valid
\* JSON that is a non-empty list or string, "falsy" is valid JSON that Python
\* holds falsy ({}, [], 0, null), "json" is an object whose op/before/after
\* are given (op "none": the key is absent or null).
Msg(kind, op, before, after) ==
    [kind |-> kind, op |-> op, before |-> before, after |-> after]
Tombstone == Msg("empty", "none", Null, Null)
Malformed == Msg("malformed", "none", Null, Null)
NonObject == Msg("nonobject", "none", Null, Null)
FalsyJson == Msg("falsy", "none", Null, Null)
Event(op, before, after) == Msg("json", op, before, after)

\* The change-event wire shape: before/after row images, op.
CreateEvent(row) == Event("c", Null, row)
ReadEvent(row) == Event("r", Null, row)
UpdateEvent(old, new) == Event("u", old, new)
DeleteEvent(old) == Event("d", old, Null)

\* ------------------------------------------------------------ destination
\* The destination table orders: its rows in heap order. order_id is the
\* conflict target of the consumer's INSERT.
HasKey(tbl, k) == \E i \in DOMAIN tbl : tbl[i].order_id = k
Rows(tbl) == {tbl[i] : i \in DOMAIN tbl}

\* Mutant of UpsertStmt: a plain INSERT, no conflict clause.
UpsertStmt_asInsert(tbl, k, u, n) ==
    Append(tbl, [order_id |-> k, user_id |-> u, name |-> n])

\* INSERT INTO orders (order_id, user_id, name) VALUES ... ON CONFLICT
\* (order_id) DO UPDATE SET user_id = EXCLUDED.user_id, name = EXCLUDED.name
UpsertStmt(tbl, k, u, n) ==
    IF HasKey(tbl, k)
    THEN [i \in DOMAIN tbl |->
            IF tbl[i].order_id = k
            THEN [tbl[i] EXCEPT !.user_id = u, !.name = n] ELSE tbl[i]]
    ELSE Append(tbl, [order_id |-> k, user_id |-> u, name |-> n])

\* Mutant of UpdateStmt: no WHERE clause.
UpdateStmt_noWhere(tbl, k, u, n) ==
    [i \in DOMAIN tbl |-> [tbl[i] EXCEPT !.user_id = u, !.name = n]]

\* Mutant of UpdateStmt: the upsert used for op 'u' as well.
UpdateStmt_asUpsert(tbl, k, u, n) == UpsertStmt(tbl, k, u, n)

\* UPDATE orders SET user_id = %s, name = %s WHERE order_id = %s
UpdateStmt(tbl, k, u, n) ==
    [i \in DOMAIN tbl |->
        IF tbl[i].order_id = k
        THEN [tbl[i] EXCEPT !.user_id = u, !.name = n] ELSE tbl[i]]

\* Mutant of KeepRow: the WHERE condition inverted.
KeepRow_inverted(r, k) == r.order_id = k

\* DELETE FROM orders WHERE order_id = %s
KeepRow(r, k) == r.order_id /= k
DeleteStmt(tbl, k) == SelectSeq(tbl, LAMBDA r : KeepRow(r, k))

\* Mutant of value_deserializer: no `if x else None`, json.loads of no value.
value_deserializer_noGuard(raw) ==
    [raised |-> raw.kind \in {"malformed", "empty"}, value |-> raw]

\* value_deserializer: json.loads(x.decode('utf-8')) if x else None.
\* raised: json.loads rejected the bytes; value: the Python value otherwise
\* (kind "empty" stands for None).
value_deserializer(raw) ==
    [raised |-> raw.kind = "malformed", value |-> raw]

\* The result of process_message: the table afterwards, the exception it
\* raised ("none", "KeyError", "AttributeError") and whether it executed a
\* statement.
Result(tbl, exc, stmt) == [tbl |-> tbl, exc |-> exc, stmt |-> stmt]

HasFields(obj, fs) == fs \subseteq DOMAIN obj

\* Mutant of UpsertOps: the upsert for op 'c' only.
UpsertOps_createOnly == {"c"}

\* if op in ['c', 'r']:
UpsertOps == {"c", "r"}

process_message(value, tbl) ==
    IF value.kind \in {"empty", "falsy"}
    THEN Result(tbl, "none", FALSE)
    ELSE IF value.kind = "nonobject"
    THEN Result(tbl, "AttributeError", FALSE)
    ELSE IF value.op \in UpsertOps
    THEN IF Truthy(value.after)
         THEN IF HasFields(value.after, {"order_id", "user_id", "name"})
              THEN Result(UpsertStmt(tbl, value.after.order_id,
                              value.after.user_id, value.after.name),
                          "none", TRUE)
              ELSE Result(tbl, "KeyError", FALSE)
         ELSE Result(tbl, "none", FALSE)
    ELSE IF value.op = "u"
    THEN IF Truthy(value.after)
         THEN IF HasFields(value.after, {"order_id", "user_id", "name"})
              THEN Result(UpdateStmt(tbl, value.after.order_id,
                              value.after.user_id, value.after.name),
                          "none", TRUE)
              ELSE Result(tbl, "KeyError", FALSE)
         ELSE Result(tbl, "none", FALSE)
    ELSE IF value.op = "d"
    THEN IF Truthy(value.before)
         THEN IF HasFields(value.before, {"order_id"})
              THEN Result(DeleteStmt(tbl, value.before.order_id), "none", TRUE)
              ELSE Result(tbl, "KeyError", FALSE)
         ELSE Result(tbl, "none", FALSE)
    ELSE Result(tbl, "none", FALSE)

\* ------------------------------------------------------------------ state
VARIABLES
    source,         \* the source table orders (mock_stream.py writes it)
    next_order_id,  \* the source's serial order_id
    log,            \* the topic partition: the raw messages, offset 0 first
    pc,             \* where main() of kafka-consumer.py is
    retry_count,    \* retry_count of the connection loop being run (it is
                    \* read nowhere after its loop: 0 outside the loops)
    position,       \* the consumer's position: offset of the next message
    committed,      \* the group's committed offset
    orders,         \* the destination table orders
    cur,            \* offset of the message the loop body last received
    last,           \* how the last run of the loop body ended
    error,          \* the exception main() ended with
    failed_at,      \* the first offset of this run whose loop body ended in
                    \* a destination error or was interrupted (-1: none)
    restarts,       \* how often the process was started again
    hist,           \* ApplySpec: the values handed to process_message
    pre,            \* ApplySpec: the table before the last call
    flink_pos,      \* the Flink job's position in the topic
    orders_flink    \* the Flink job's sink table orders_flink

vars == <<source, next_order_id, log, pc, retry_count, position,
          committed, orders, cur, last, error, failed_at, restarts, hist, pre,
          flink_pos, orders_flink>>

srcVars == <<source, next_order_id, log>>
loopVars == <<pc, retry_count, position, committed, orders, cur,
              last, error, failed_at, restarts>>
applyVars == <<hist, pre>>
flinkVars == <<flink_pos, orders_flink>>

Init ==
    /\ source = {}
    /\ next_order_id = 1
    /\ log = <<>>
    /\ pc = "connect_db"
    /\ retry_count = 0
    /\ position = 0
    /\ committed = 0
    /\ orders = <<>>
    /\ cur = -1
    /\ last = "none"
    /\ error = "none"
    /\ failed_at = -1
    /\ restarts = 0
    /\ hist = <<>>
    /\ pre = <<>>
    /\ flink_pos = 0
    /\ orders_flink = {}

\* -------------------------------------------------- source and the topic
\* The message at an offset (offsets start at 0).
At(o) == log[o + 1]
Produce(m) == Len(log) < MaxLog /\ log' = Append(log, m)

\* insert_order: INSERT INTO orders (user_id, name) ... RETURNING order_id,
\* captured as a Create event.
insert_order ==
    \E f \in Fills :
        /\ next_order_id <= MaxKeys
        /\ Produce(CreateEvent(RowOf(next_order_id, f)))
        /\ source' = source \cup {RowOf(next_order_id, f)}
        /\ next_order_id' = next_order_id + 1
        /\ UNCHANGED <<loopVars, applyVars, flinkVars>>

\* perform_random_operation, 'update': UPDATE orders SET user_id, name of
\* one existing order, captured as an Update event.
update_order ==
    \E old \in source, f \in Fills :
        /\ Produce(UpdateEvent(old, RowOf(old.order_id, f)))
        /\ source' = (source \ {old}) \cup {RowOf(old.order_id, f)}
        /\ UNCHANGED <<next_order_id, loopVars, applyVars, flinkVars>>

\* perform_random_operation, 'delete': DELETE one existing order, captured
\* as a Delete event.
delete_order ==
    \E old \in source :
        /\ Produce(DeleteEvent(old))
        /\ source' = source \ {old}
        /\ UNCHANGED <<next_order_id, loopVars, applyVars, flinkVars>>

\* A snapshot of the source table: an existing row captured as a Read event.
snapshot_order ==
    \E row \in source :
        /\ Produce(ReadEvent(row))
        /\ UNCHANGED <<source, next_order_id, loopVars, applyVars, flinkVars>>

\* Messages of the topic that are no change of the source: a tombstone, bytes
\* that are not JSON, an event without its projection, an event whose
\* projection lacks a field.
Anomalies ==
    {Tombstone, Malformed, Event("c", Null, Null),
     Event("u", Null, KeyOnly(1))}

Inject ==
    \E m \in Anomalies :
        /\ Produce(m)
        /\ UNCHANGED <<source, next_order_id, loopVars, applyVars, flinkVars>>

\* ------------------------------------------- kafka-consumer.py: main()
\* get_db_connection, one attempt of psycopg2.connect that succeeds.
get_db_connection_ok ==
    /\ pc = "connect_db"
    /\ pc' = "connect_kafka"
    /\ retry_count' = 0
    /\ UNCHANGED <<position, committed, orders, cur, last, error, failed_at,
                   restarts>>
    /\ UNCHANGED <<srcVars, applyVars, flinkVars>>

\* get_db_connection, one attempt that fails: retry_count += 1, and the
\* exception after the loop once retry_count reaches max_retries.
get_db_connection_fail ==
    /\ pc = "connect_db"
    /\ retry_count < max_retries
    /\ IF retry_count + 1 < max_retries
       THEN retry_count' = retry_count + 1 /\ UNCHANGED <<pc, error>>
       ELSE retry_count' = 0 /\ pc' = "stopped" /\ error' = "connect_db"
    /\ UNCHANGED <<position, committed, orders, cur, last, failed_at,
                   restarts>>
    /\ UNCHANGED <<srcVars, applyVars, flinkVars>>

\* main, one attempt of KafkaConsumer(...) that succeeds: the consumer joins
\* group postgres-consumer-group and starts at the group's committed offset
\* (auto_offset_reset='earliest' when there is none).
kafka_connect_ok ==
    /\ pc = "connect_kafka"
    /\ pc' = "consuming"
    /\ position' = committed
    /\ retry_count' = 0
    /\ UNCHANGED <<committed, orders, cur, last, error, failed_at, restarts>>
    /\ UNCHANGED <<srcVars, applyVars, flinkVars>>

\* Mutant of kafka_connect_fail: no `if not consumer: raise`, main goes on
\* to the loop after the last failed attempt.
kafka_connect_fail_noRaise ==
    /\ pc = "connect_kafka"
    /\ retry_count < max_retries
    /\ IF retry_count + 1 < max_retries
       THEN retry_count' = retry_count + 1 /\ UNCHANGED <<pc, error>>
       ELSE retry_count' = 0 /\ pc' = "consuming" /\ error' = "connect_kafka"
    /\ UNCHANGED <<position, committed, orders, cur, last, failed_at,
                   restarts>>
    /\ UNCHANGED <<srcVars, applyVars, flinkVars>>

\* main, one attempt of KafkaConsumer(...) that fails; `if not consumer:
\* raise` once retry_count reaches max_retries.
kafka_connect_fail ==
    /\ pc = "connect_kafka"
    /\ retry_count < max_retries
    /\ IF retry_count + 1 < max_retries
       THEN retry_count' = retry_count + 1 /\ UNCHANGED <<pc, error>>
       ELSE retry_count' = 0 /\ pc' = "stopped" /\ error' = "connect_kafka"
    /\ UNCHANGED <<position, committed, orders, cur, last, failed_at,
                   restarts>>
    /\ UNCHANGED <<srcVars, applyVars, flinkVars>>

\* consumer.close() in main's finally: with enable_auto_commit=True the
\* consumer commits its position when it closes.
CloseCommit == position

\* `for message in consumer`: the iterator deserializes the next message
\* and hands it to the loop body, its position now past the message. A
\* value json.loads rejects raises out of the for statement, outside the
\* inner try: main's finally closes the consumer and the connection and
\* the exception ends main.
Fetch ==
    /\ pc = "consuming"
    /\ position < Len(log)
    /\ IF value_deserializer(At(position)).raised
       THEN /\ pc' = "stopped"
            /\ error' = "JSONDecodeError"
            /\ committed' = CloseCommit
            /\ UNCHANGED <<position, cur>>
       ELSE /\ pc' = "applying"
            /\ cur' = position
            /\ position' = position + 1
            /\ UNCHANGED <<error, committed>>
    /\ UNCHANGED <<retry_count, orders, last, failed_at, restarts>>
    /\ UNCHANGED <<srcVars, applyVars, flinkVars>>

\* enable_auto_commit=True: while the loop waits in the iterator, the
\* consumer commits its position in the background.
AutoCommitOffset == position

AutoCommit ==
    /\ pc = "consuming"
    /\ committed /= AutoCommitOffset
    /\ committed' = AutoCommitOffset
    /\ UNCHANGED <<pc, retry_count, position, orders, cur, last,
                   error, failed_at, restarts>>
    /\ UNCHANGED <<srcVars, applyVars, flinkVars>>

\* Mutant of AfterHandledException: the handler ends the loop.
AfterHandledException_stops == "stopped"

\* Where main goes after process_message raised an Exception and
\* conn.rollback() returned: on to the next message.
AfterHandledException == "consuming"

\* The loop body with the destination answering: cursor, process_message,
\* cursor.close(); an Exception of process_message is printed, rolled back
\* and the loop goes on.
loop_body ==
    /\ pc = "applying"
    /\ LET res == process_message(value_deserializer(At(cur)).value, orders)
       IN  IF res.exc = "none"
           THEN /\ orders' = res.tbl
                /\ last' = "ok"
                /\ pc' = "consuming"
           ELSE /\ last' = res.exc
                /\ pc' = AfterHandledException
                /\ UNCHANGED orders
    /\ UNCHANGED <<retry_count, position, committed, cur, error, failed_at,
                   restarts>>
    /\ UNCHANGED <<srcVars, applyVars, flinkVars>>

\* The classes of statement error: "retryable" (serialization failure,
\* deadlock, statement timeout), "fatal" (constraint or schema violation).
StmtErrors == {"retryable", "fatal"}

\* The loop body with cursor.execute raising while the connection stays
\* usable: the statement has no effect, the handler prints, conn.rollback()
\* returns, and the loop goes on with the next message.
\* The first failed offset of the run, once the loop body of `cur` failed.
FirstFailure == IF failed_at = -1 THEN cur ELSE failed_at

loop_body_stmt_error ==
    \E kind \in StmtErrors :
        /\ pc = "applying"
        /\ process_message(value_deserializer(At(cur)).value, orders).stmt
        /\ last' = kind
        /\ pc' = AfterHandledException
        /\ failed_at' = FirstFailure
        /\ UNCHANGED <<retry_count, position, committed, orders,
                       cur, error, restarts>>
        /\ UNCHANGED <<srcVars, applyVars, flinkVars>>

\* The loop body with the destination connection lost: conn.cursor() or
\* cursor.execute raises, and conn.rollback() in the handler raises on the
\* closed connection, out of the for statement; main's finally closes the
\* consumer (committing its position) and the exception ends main.
loop_body_conn_lost ==
    /\ pc = "applying"
    /\ last' = "retryable"
    /\ pc' = "stopped"
    /\ error' = "connection"
    /\ committed' = CloseCommit
    /\ failed_at' = FirstFailure
    /\ UNCHANGED <<retry_count, position, orders, cur, restarts>>
    /\ UNCHANGED <<srcVars, applyVars, flinkVars>>

\* KeyboardInterrupt, while the loop waits for a message or while the loop
\* body runs (`except Exception` does not catch it): "Shutting down
\* consumer...", then finally closes the consumer and the connection.
KeyboardInterrupt ==
    /\ pc \in {"consuming", "applying"}
    /\ pc' = "stopped"
    /\ last' = IF pc = "applying" THEN "interrupted" ELSE last
    /\ failed_at' = IF pc = "applying" THEN FirstFailure ELSE failed_at
    /\ committed' = CloseCommit
    /\ UNCHANGED <<retry_count, position, orders, cur, error, restarts>>
    /\ UNCHANGED <<srcVars, applyVars, flinkVars>>

\* The process is started again (after it ended, or after it was killed
\* without running finally): main() from its first line. The new process
\* has no position until it subscribes and takes the committed offset.
Restart ==
    /\ pc \in {"stopped", "consuming", "applying"}
    /\ restarts < MaxRestarts
    /\ restarts' = restarts + 1
    /\ pc' = "connect_db"
    /\ retry_count' = 0
    /\ position' = committed
    /\ cur' = -1
    /\ last' = "none"
    /\ error' = "none"
    /\ failed_at' = -1
    /\ UNCHANGED <<committed, orders>>
    /\ UNCHANGED <<srcVars, applyVars, flinkVars>>

\* --------------------------------------------- flink-init.py: the SQL job
\* SQL NULL in an INT column of the sink (the user_ids drawn are positive).
SqlNull == 0

\* `p`.f of a ROW column: NULL when the row or the field is missing
\* ('json.fail-on-missing-field' = 'false').
FieldOf(p, f) == IF f \in DOMAIN p THEN p[f] ELSE SqlNull

\* COALESCE(`after`.f, `before`.f)
Coalesce(m, f) ==
    IF FieldOf(m.after, f) /= SqlNull THEN FieldOf(m.after, f)
    ELSE FieldOf(m.before, f)

\* Mutant of FlinkSelect: name selected as well.
FlinkSelect_withName(m) ==
    [order_id |-> Coalesce(m, "order_id"), user_id |-> Coalesce(m, "user_id"),
     name |-> IF "name" \in DOMAIN m.after THEN m.after.name ELSE ""]

\* SELECT COALESCE(`after`.order_id, `before`.order_id) as order_id,
\*        COALESCE(`after`.user_id, `before`.user_id) as user_id
FlinkSelect(m) ==
    [order_id |-> Coalesce(m, "order_id"), user_id |-> Coalesce(m, "user_id")]

\* FROM kafka_orders WHERE `op` IN ('c', 'r', 'u'): a message with no value
\* yields no row, and one that is no JSON object of the table's shape is
\* dropped ('json.ignore-parse-errors' = 'true').
FlinkWhere(m) == m.kind = "json" /\ m.op \in {"c", "r", "u"}

\* The JDBC sink orders_flink_sink with PRIMARY KEY (order_id): an upsert by
\* order_id.
FlinkSink(tbl, row) == {r \in tbl : r.order_id /= row.order_id} \cup {row}

\* Mutant of flink_job: the topic read as a changelog, a Delete event
\* retracting the row of its key.
flink_job_changelog ==
    /\ flink_pos < Len(log)
    /\ LET m == At(flink_pos)
       IN  IF FlinkWhere(m)
           THEN /\ FlinkSelect(m).order_id /= SqlNull
                /\ orders_flink' = FlinkSink(orders_flink, FlinkSelect(m))
           ELSE IF m.op = "d" /\ HasFields(m.before, {"order_id"})
           THEN orders_flink' =
                    {r \in orders_flink : r.order_id /= m.before.order_id}
           ELSE UNCHANGED orders_flink
    /\ flink_pos' = flink_pos + 1
    /\ UNCHANGED <<srcVars, loopVars, applyVars>>

\* INSERT INTO orders_flink_sink SELECT ... : the job reads the next message
\* of the topic and writes the selected row. A row whose primary key is NULL
\* fails the job, which writes nothing more.
flink_job ==
    /\ flink_pos < Len(log)
    /\ LET m == At(flink_pos)
       IN  IF FlinkWhere(m)
           THEN /\ FlinkSelect(m).order_id /= SqlNull
                /\ orders_flink' = FlinkSink(orders_flink, FlinkSelect(m))
           ELSE UNCHANGED orders_flink
    /\ flink_pos' = flink_pos + 1
    /\ UNCHANGED <<srcVars, loopVars, applyVars>>

SourceNext == insert_order \/ update_order \/ delete_order \/ Inject

ConsumerNext ==
    \/ get_db_connection_ok
    \/ get_db_connection_fail
    \/ kafka_connect_ok
    \/ kafka_connect_fail
    \/ Fetch
    \/ AutoCommit
    \/ loop_body
    \/ loop_body_stmt_error
    \/ loop_body_conn_lost
    \/ KeyboardInterrupt
    \/ Restart

Next == SourceNext \/ ConsumerNext

\* The source, the topic and the consumer process with its faults, restarts
\* and interrupts.
Spec == Init /\ [][Next]_vars

\* The same with the destination answering every statement and no interrupt
\* while the loop body runs: redelivery comes from restarts only.
FaultFreeNext ==
    \/ SourceNext
    \/ get_db_connection_ok
    \/ get_db_connection_fail
    \/ kafka_connect_ok
    \/ kafka_connect_fail
    \/ Fetch
    \/ AutoCommit
    \/ loop_body
    \/ (pc = "consuming" /\ KeyboardInterrupt)
    \/ Restart

FaultFreeSpec == Init /\ [][FaultFreeNext]_vars

\* ------------------------------------------------------------ PipelineSpec
\* The topic read by both sinks, the consumer and the Flink job, with the
\* destination answering every statement.
PipelineNext ==
    \/ SourceNext
    \/ snapshot_order
    \/ get_db_connection_ok
    \/ kafka_connect_ok
    \/ Fetch
    \/ AutoCommit
    \/ loop_body
    \/ flink_job

PipelineSpec == Init /\ [][PipelineNext]_vars

\* --------------------------------------------------------------- ApplySpec
\* process_message on its own: any table, any value.
Tables ==
    {t \in UNION {[1..n -> FullRows] : n \in 0..MaxKeys} :
        \A i \in DOMAIN t, j \in DOMAIN t :
            t[i].order_id = t[j].order_id => i = j}

\* The values process_message is handed: events with a full, a partial, an
\* empty or no projection, an unknown op, no value, and JSON that is no
\* object.
Projections == FullRows \cup {Null, EmptyObj, KeyOnly(1)}
Values ==
    {Event(op, Null, a) : op \in {"c", "r", "u"}, a \in Projections}
    \cup {Event("d", b, Null) : b \in Projections \cup {NoKey}}
    \cup {Event("x", Null, RowOf(1, [user_id |-> 5, name |-> "A"])),
          Tombstone, NonObject, FalsyJson}

ApplyInit ==
    /\ orders \in Tables
    /\ pre = orders
    /\ hist = <<>>
    /\ source = {}
    /\ next_order_id = 1
    /\ log = <<>>
    /\ pc = "applying"
    /\ retry_count = 0
    /\ position = 0
    /\ committed = 0
    /\ cur = -1
    /\ last = "none"
    /\ error = "none"
    /\ failed_at = -1
    /\ restarts = 0
    /\ flink_pos = 0
    /\ orders_flink = {}

\* One call process_message(message, cursor) against the table.
apply_message ==
    \E v \in Values :
        /\ Len(hist) < MaxHist
        /\ LET res == process_message(v, orders)
           IN  /\ orders' = res.tbl
               /\ last' = IF res.exc = "none" THEN "ok" ELSE res.exc
        /\ pre' = orders
        /\ hist' = Append(hist, v)
        /\ UNCHANGED <<source, next_order_id, log, pc, retry_count, position,
                       committed, cur, error, failed_at, restarts, flink_pos,
                       orders_flink>>

ApplySpec == ApplyInit /\ [][apply_message]_vars

\* ---------------------------------------------------------------- LoopSpec
\* main's loop over a topic of any content, the destination answering every
\* statement: a message of any value the deserializer can return, or bytes
\* it rejects, is appended to the topic.
Publish ==
    \E v \in Values \cup {Malformed} :
        /\ Len(log) < MaxHist
        /\ log' = Append(log, v)
        /\ UNCHANGED <<source, next_order_id, loopVars, applyVars, flinkVars>>

LoopNext ==
    \/ Publish
    \/ get_db_connection_ok
    \/ kafka_connect_ok
    \/ Fetch
    \/ AutoCommit
    \/ loop_body

LoopSpec == Init /\ [][LoopNext]_vars

\* ================================================================== claims
\* The value of the last call of process_message in ApplySpec.
LastValue == hist[Len(hist)]
\* An event with its whole after image / with the key in its before image.
HasAfter(v) ==
    /\ v.kind = "json"
    /\ Truthy(v.after)
    /\ HasFields(v.after, {"order_id", "user_id", "name"})
HasBeforeKey(v) ==
    /\ v.kind = "json"
    /\ Truthy(v.before)
    /\ HasFields(v.before, {"order_id"})
\* The table holds the same rows as the source, one row each.
SameAsSource(tbl) == Rows(tbl) = source /\ Len(tbl) = Cardinality(source)
\* The topic holds change events of the source only.
SourceHistory == \A i \in DOMAIN log : log[i] \notin Anomalies

\* C1 (as claimed): once the loop has processed every message of a source
\* history and waits at the end of the topic, the destination holds exactly
\* the source's rows with the source's latest values.
C1_Convergence ==
    (SourceHistory /\ pc = "consuming" /\ position = Len(log))
        => SameAsSource(orders)

\* C2 (as claimed): the committed offset never passes a message whose loop
\* body ended in a destination error or was cut short, nor the message the
\* loop body is still applying.
C2_CommitAfterApply ==
    /\ failed_at /= -1 => committed <= failed_at
    /\ pc = "applying" => committed <= cur

\* C3 (as claimed): after the write of a message failed with a retryable
\* error, its offset is not committed and the loop has ended with an error
\* instead of going on.
C3_RetryExhaustion ==
    last = "retryable"
        => (committed <= cur /\ pc = "stopped" /\ error /= "none")

C5_Idempotence ==
    (hist /= <<>> /\ LastValue.kind = "json"
        /\ LastValue.op \in {"c", "r", "u"})
    => /\ process_message(LastValue, orders).tbl = orders
       /\ (process_message(LastValue, orders).exc = "none") = (last = "ok")

C5_Witness ==
    /\ hist /= <<>>
    /\ LastValue.op \in {"c", "r"}
    /\ HasAfter(LastValue)
    /\ HasKey(pre, LastValue.after.order_id)
    /\ orders /= pre
    /\ process_message(LastValue, orders).tbl = orders

\* C6 (as claimed): a message whose payload json.loads rejects does not end
\* the loop: the loop is never stopped at such a message by the decode
\* error.
C6_MalformedIsolation ==
    \A o \in 0..(Len(log) - 1) :
        (At(o).kind = "malformed" /\ position = o)
            => ~(pc = "stopped" /\ error = "JSONDecodeError")

\* C7: when the loop body has applied a Delete event with
\* before.order_id = k, the table holds no row for k.
C7_DeleteRemovesRow ==
    (pc /= "applying" /\ last = "ok" /\ cur >= 0 /\ At(cur).op = "d"
        /\ HasBeforeKey(At(cur)))
    => ~HasKey(orders, At(cur).before.order_id)

\* Create, Update and Delete of order 1, applied in order by one run of the
\* loop without a failure.
C7_Witness ==
    /\ Len(log) = 3
    /\ log[1].op = "c" /\ HasAfter(log[1]) /\ log[1].after.order_id = 1
    /\ log[2].op = "u" /\ HasAfter(log[2]) /\ log[2].after.order_id = 1
    /\ log[3].op = "d" /\ HasBeforeKey(log[3]) /\ log[3].before.order_id = 1
    /\ pc = "consuming" /\ cur = 2 /\ last = "ok"
    /\ restarts = 0 /\ failed_at = -1
    /\ orders = <<>>

\* C8: a Delete for a key with no row raises no error and leaves the table
\* as it was.
C8_DeleteIdempotent ==
    (hist /= <<>> /\ LastValue.op = "d" /\ HasBeforeKey(LastValue)
        /\ ~HasKey(pre, LastValue.before.order_id))
    => (last = "ok" /\ orders = pre)

\* A Delete and its redelivery, a row of another key staying.
C8_Witness ==
    /\ Len(hist) = 2
    /\ hist[1] = hist[2]
    /\ LastValue.op = "d"
    /\ HasBeforeKey(LastValue)
    /\ ~HasKey(pre, LastValue.before.order_id)
    /\ pre /= <<>>
    /\ orders = pre
    /\ last = "ok"

\* Only order_id and user_id.
Narrowed(r) == DOMAIN r = {"order_id", "user_id"}

C10_FatalStop ==
    last = "fatal"
        => (pc = "stopped" /\ error /= "none" /\ committed <= cur)

\* C11 (as claimed): a message whose loop body was cut short by the stop
\* signal is never acknowledged: the committed offset stays at or before it.
C11_CooperativeCancellation ==
    last = "interrupted" => committed <= cur

\* C12 (as claimed): when the loop body holds a message, every message
\* before it has had its offset committed: the commit of message N comes
\* before the fetch of message N+1.
C12_StrictSequencing ==
    pc = "applying" => committed >= cur

\* The loop body holds an Update event with its whole after image whose key
\* has no row in the destination.
UpdateOfAbsentKey ==
    /\ pc = "applying"
    /\ HasAfter(At(cur))
    /\ At(cur).op = "u"
    /\ ~HasKey(orders, At(cur).after.order_id)

\* C13: the loop body of an Update whose key has no row changes no row and
\* raises no error, and the loop goes on to wait for the next message with
\* its position past the Update: no stop, no second attempt.
C13_UpdateAbsentSoftFailure ==
    [][(UpdateOfAbsentKey /\ loop_body)
        => /\ orders' = orders
           /\ last' = "ok"
           /\ pc' = "consuming"
           /\ error' = "none"
           /\ position' = cur + 1]_vars

\* The loop has applied an Update of a key with no row, the table holding
\* a row of another key, and waits for the next message.
C13_Witness ==
    /\ pc = "consuming"
    /\ last = "ok"
    /\ cur >= 0
    /\ HasAfter(At(cur))
    /\ At(cur).op = "u"
    /\ ~HasKey(orders, At(cur).after.order_id)
    /\ orders /= <<>>
    /\ position = cur + 1

\* A decodable event without the projection its op needs: no after image
\* (or one lacking a field) for c, r and u, no before image (or one lacking
\* the key) for d.
MissingProjection(v) ==
    /\ v.kind = "json"
    /\ \/ v.op \in {"c", "r", "u"} /\ ~HasAfter(v)
       \/ v.op = "d" /\ ~HasBeforeKey(v)

\* C14: the loop body of an event without its projection executes no
\* statement and changes no row, and the loop goes on to wait for the next
\* message with its position past the event.
C14_MissingProjectionSkipped ==
    [][(pc = "applying" /\ MissingProjection(At(cur)) /\ loop_body)
        => /\ ~process_message(value_deserializer(At(cur)).value, orders).stmt
           /\ orders' = orders
           /\ pc' = "consuming"
           /\ error' = "none"
           /\ position' = cur + 1]_vars

\* A Delete whose before image lacks the key was passed over, and the loop
\* has applied the Create that follows it.
C14_Witness ==
    /\ Len(log) = 2
    /\ MissingProjection(At(0))
    /\ At(0).op = "d"
    /\ Truthy(At(0).before)
    /\ HasAfter(At(1))
    /\ At(1).op = "c"
    /\ pc = "consuming"
    /\ cur = 1
    /\ last = "ok"
    /\ orders = <<At(1).after>>

\* C15: a message with no value is handed to the loop body as no event; the
\* loop body executes no statement, changes no row and raises nothing, and
\* the loop goes on to wait for the next message.
C15_TombstoneNoOp ==
    [][/\ (pc = "consuming" /\ position < Len(log)
            /\ At(position) = Tombstone /\ Fetch)
           => (pc' = "applying" /\ cur' = position /\ error' = "none")
       /\ (pc = "applying" /\ At(cur) = Tombstone /\ loop_body)
           => /\ ~process_message(value_deserializer(At(cur)).value,
                                   orders).stmt
              /\ orders' = orders
              /\ last' = "ok"
              /\ pc' = "consuming"
              /\ position' = cur + 1]_vars

\* A tombstone after the Create of a row: the row is as the Create left it
\* and the loop waits for the next message.
C15_Witness ==
    /\ Len(log) = 2
    /\ HasAfter(At(0))
    /\ At(0).op = "c"
    /\ At(1) = Tombstone
    /\ pc = "consuming"
    /\ cur = 1
    /\ position = 2
    /\ last = "ok"
    /\ orders = <<At(0).after>>

\* The same event with op 'c' in place of 'r' and 'r' in place of 'c'.
Twin(v) == [v EXCEPT !.op = IF @ = "c" THEN "r" ELSE "c"]

\* C16: for every table and every payload, the table after a Create or Read
\* event is the table the same event with the other of the two ops gives,
\* and both end the same way.
C16_CreateReadIdentical ==
    (hist /= <<>> /\ LastValue.kind = "json" /\ LastValue.op \in {"c", "r"})
    => /\ orders = process_message(Twin(LastValue), pre).tbl
       /\ (last = "ok") = (process_message(Twin(LastValue), pre).exc = "none")

\* A Read event has changed the table.
C16_Witness ==
    /\ hist /= <<>>
    /\ LastValue.op = "r"
    /\ HasAfter(LastValue)
    /\ orders /= pre
    /\ LastValue.after \in Rows(orders)
    /\ orders = process_message(Twin(LastValue), pre).tbl

\* C17: after any sequence of applied events the table holds at most one
\* row per order_id.
C17_KeyUniqueness ==
    \A i \in DOMAIN orders, j \in DOMAIN orders :
        orders[i].order_id = orders[j].order_id => i = j

\* Two Creates of the same key with different fields, applied one after the
\* other: one row for the key, carrying the second Create's fields.
C17_Witness ==
    /\ Len(hist) = 2
    /\ hist[1].op = "c" /\ HasAfter(hist[1])
    /\ hist[2].op = "c" /\ HasAfter(hist[2])
    /\ hist[1].after.order_id = hist[2].after.order_id
    /\ hist[1].after /= hist[2].after
    /\ Cardinality({i \in DOMAIN orders :
            orders[i].order_id = hist[2].after.order_id}) = 1
    /\ hist[2].after \in Rows(orders)

\* C18: a run of main has consumed and applied no message while it is still
\* connecting to the destination or subscribing; neither is attempted more
\* than max_retries times; and once either has failed max_retries times the
\* process has ended with the exception, no message consumed or applied.
C18_ConnectionGating ==
    /\ retry_count < max_retries
    /\ pc \in {"connect_db", "connect_kafka"}
        => (cur = -1 /\ last = "none" /\ position = committed)
    /\ error \in {"connect_db", "connect_kafka"}
        => (pc = "stopped" /\ cur = -1 /\ last = "none"
            /\ position = committed)

\* The subscription failed max_retries times with messages in the topic:
\* the process has ended, nothing consumed, nothing written.
C18_Witness ==
    /\ pc = "stopped"
    /\ error = "connect_kafka"
    /\ log /= <<>>
    /\ cur = -1
    /\ restarts = 0
    /\ orders = <<>>

\* The event carries the projection its op needs, and the key in it.
HasOwnKey(v) ==
    \/ v.op \in {"c", "r", "u"} /\ HasAfter(v)
    \/ v.op = "d" /\ HasBeforeKey(v)
OwnKey(v) == IF v.op = "d" THEN v.before.order_id ELSE v.after.order_id
\* The rows of the other keys, in the table's order.
OtherRows(tbl, k) == SelectSeq(tbl, LAMBDA r : r.order_id /= k)
\* The rows of the key.
OwnRows(tbl, k) == SelectSeq(tbl, LAMBDA r : r.order_id = k)

\* C19: one call of process_message leaves the rows of every key other
\* than the event's own key as they were, and adds, changes or removes at
\* most the one row of the event's own key; a value without its own key
\* leaves the whole table as it was.
C19_SingleKeyFrame ==
    hist /= <<>>
    => IF HasOwnKey(LastValue)
       THEN /\ OtherRows(orders, OwnKey(LastValue))
                = OtherRows(pre, OwnKey(LastValue))
            /\ Len(OwnRows(orders, OwnKey(LastValue))) <= 1
            /\ process_message(LastValue, pre).stmt
       ELSE /\ orders = pre
            /\ ~process_message(LastValue, pre).stmt

\* An Update has changed the row of its key in a table of two rows.
C19_Witness ==
    /\ hist /= <<>>
    /\ LastValue.op = "u"
    /\ HasAfter(LastValue)
    /\ Len(pre) = 2
    /\ orders /= pre
    /\ LastValue.after \in Rows(orders)
    /\ OtherRows(orders, LastValue.after.order_id) /= <<>>

\* C20: no step removes a key from orders_flink, and a message whose op is
\* not 'c', 'r' or 'u' (a Delete event among them) leaves orders_flink as it
\* was.
C20_FlinkNeverRemoves ==
    [][/\ \A r \in orders_flink :
            \E r2 \in orders_flink' : r2.order_id = r.order_id
       /\ (flink_pos' /= flink_pos /\ At(flink_pos).op \notin {"c", "r", "u"})
           => orders_flink' = orders_flink]_vars

\* The Flink job has read the Delete event of an order: the source no longer
\* has the order, orders_flink still has its row.
C20_Witness ==
    /\ flink_pos > 0
    /\ At(flink_pos - 1).op = "d"
    /\ HasBeforeKey(At(flink_pos - 1))
    /\ \A r \in source : r.order_id /= At(flink_pos - 1).before.order_id
    /\ \E r \in orders_flink :
            r.order_id = At(flink_pos - 1).before.order_id

====
